---- MODULE Spec2Model ----
(***************************************************************************)
(* Model of backend_server.py: a Flask server that keeps one JSON file per *)
(* region (uid -> expiry) and one JSON file of user accounts (coins and    *)
(* history).  Request handlers run in concurrent threads and take no lock; *)
(* every handler is cut into steps at its accesses to the shared files, so *)
(* that two handlers interleave exactly where the threads can.             *)
(***************************************************************************)
EXTENDS Integers, Sequences, FiniteSets, TLC

(* ------------------------------------------------------------------ *)
(* Configuration (lines 12-16)                                         *)
(* ------------------------------------------------------------------ *)
WHITELIST_DIR == "whitelists"
USERS_FILE == "users.json"
ALL_REGIONS == <<"ME", "IND", "ID", "VN", "TH", "BD", "PK", "TW", "EU", "CIS", "NA", "SAC", "BR">>
COIN_COST_PER_UID == 100
DEFAULT_WHITELIST_HOURS == 24
SecondsPerHour == 3600
MinHours == 1
MaxHours == 720
MaxAmount == 1000

(* ------------------------------------------------------------------ *)
(* Bounds of the model                                                 *)
(* ------------------------------------------------------------------ *)
\* requests accepted in one behaviour
MaxReqs == 2
\* times the clock advances (by one hour each time)
MaxTicks == 1
\* saves that the storage lets fail in one behaviour
MaxFaults == 1
\* calls of save_json_file on the one file that SaveSpec watches
MaxSaves == 3
\* crashes of the server process that SaveSpec watches
MaxCrashes == 1
\* write system calls that carry the JSON text of one mapping to the temp file
NChunks == 2

\* the concurrent request threads
Procs == {1, 2}
\* values of the X-User-ID header; NoHeader is a request without the header
NoHeader == "<none>"
UserHeaders == {NoHeader, "u1"}
\* raw "uid" fields of a request body
RawUids == {"1", " 2", "", "ab"}
\* raw "region" fields of a request body; NoRegion is an absent field
NoRegion == "<none>"
RawRegions == {"ME", "ind", "XX", NoRegion}
\* raw "hours" fields: <<>> is an absent field
RawHours == {<<>>, <<0>>, <<1>>, <<721>>}
\* raw "amount" fields: <<>> is an absent field
RawAmounts == {<<>>, <<50>>, <<100>>, <<1001>>}

(* ------------------------------------------------------------------ *)
(* Python built-ins on the strings the model draws                     *)
(* ------------------------------------------------------------------ *)
\* str.strip()
Strip(s) == IF s = " 2" THEN "2" ELSE s

\* str.upper()
Upper(s) == IF s = "ind" THEN "IND" ELSE s

\* str.lower() on the region codes
Lower(s) ==
    CASE s = "ME" -> "me" [] s = "IND" -> "ind" [] s = "ID" -> "id"
      [] s = "VN" -> "vn" [] s = "TH" -> "th" [] s = "BD" -> "bd"
      [] s = "PK" -> "pk" [] s = "TW" -> "tw" [] s = "EU" -> "eu"
      [] s = "CIS" -> "cis" [] s = "NA" -> "na" [] s = "SAC" -> "sac"
      [] s = "BR" -> "br" [] OTHER -> s

\* str.isdigit()
IsDigit(s) == s \in {"1", "2"}

\* dict helpers
EmptyMap == [k \in {} |-> 0]
Put(m, k, v) == [x \in (DOMAIN m) \cup {k} |-> IF x = k THEN v ELSE m[x]]
\* a deletion that clears the mapping
Del_all(m, k) == EmptyMap
Del(m, k) == [x \in (DOMAIN m) \ {k} |-> m[x]]

RegionSet == {ALL_REGIONS[i] : i \in 1..Len(ALL_REGIONS)}

\* line 124, 183, 232, 270: region not in ALL_REGIONS
ValidRegion(region) == region \in RegionSet

\* one file for the whitelists of all regions
get_whitelist_path_shared(region) == <<WHITELIST_DIR, "whitelist_", "all", ".json">>

\* lines 44-46
get_whitelist_path(region) == <<WHITELIST_DIR, "whitelist_", Lower(region), ".json">>

Paths == {get_whitelist_path(r) : r \in RegionSet}

(* ------------------------------------------------------------------ *)
(* State                                                               *)
(* ------------------------------------------------------------------ *)
VARIABLES
    whitelists,   \* path -> content of the region's file (uid -> expiry)
    users_file,   \* content of users.json (user id -> account)
    now,          \* int(time.time())
    pc,           \* thread -> position in its handler
    req,          \* thread -> the request it serves
    loc,          \* thread -> the handler's local variables
    obs,          \* thread -> what an observer of the running request records
    out,          \* the response that the step just taken sent, with its request
    tally,        \* what the clients were told so far: coins credited, adds granted
    nreq,         \* requests accepted so far
    nfault,       \* saves failed so far
    fs            \* one backing file seen at the level of the file system (SaveSpec)

vars == <<whitelists, users_file, now, pc, req, loc, obs, out, tally, nreq, nfault, fs>>


(* ------------------------------------------------------------------ *)
(* Requests, responses, locals                                         *)
(* ------------------------------------------------------------------ *)
NoReq == [kind |-> "none", user |-> NoHeader, uid |-> "", region |-> NoRegion,
          hours |-> <<>>, amount |-> <<>>, reason |-> <<>>]

Add(u, i, r, h) == [NoReq EXCEPT !.kind = "add", !.user = u, !.uid = i, !.region = r, !.hours = h]
Remove(i, r) == [NoReq EXCEPT !.kind = "remove", !.uid = i, !.region = r]
Check(i, r) == [NoReq EXCEPT !.kind = "check", !.uid = i, !.region = r]
Coins(u, a, w) == [NoReq EXCEPT !.kind = "credit", !.user = u, !.amount = a, !.reason = w]
Cleanup == [NoReq EXCEPT !.kind = "cleanup"]
List == [NoReq EXCEPT !.kind = "list"]
ListRegion(r) == [NoReq EXCEPT !.kind = "list_region", !.region = r]
Balance(u) == [NoReq EXCEPT !.kind = "balance", !.user = u]
History(u) == [NoReq EXCEPT !.kind = "history", !.user = u]

\* the requests the clients send: the well-formed ones over two users, two uids, two
\* regions and two durations, and one malformed request for every way to be malformed
Requests ==
    {Add(u, "1", "ME", h) : u \in UserHeaders, h \in {<<>>, <<1>>}}
    \cup {Add(NoHeader, " 2", "ME", <<1>>), Add(NoHeader, "1", "ind", <<1>>)}
    \cup {Add(NoHeader, i, "ME", <<1>>) : i \in {"", "ab"}}
    \cup {Add(NoHeader, "1", r, <<1>>) : r \in {"XX", NoRegion}}
    \cup {Add(NoHeader, "1", "ME", h) : h \in {<<0>>, <<721>>}}
    \cup {Remove(i, "ME") : i \in RawUids}
    \cup {Remove("1", r) : r \in RawRegions}
    \cup {Check(i, NoRegion) : i \in {"1", " 2", ""}}
    \cup {Check("1", r) : r \in RawRegions}
    \cup {Coins(u, <<100>>, <<>>) : u \in UserHeaders}
    \cup {Coins(NoHeader, a, <<>>) : a \in RawAmounts}
    \cup {Coins(NoHeader, <<100>>, <<"bonus">>)}
    \cup {Cleanup}
    \cup {List}
    \cup {ListRegion(r) : r \in {"ME", "ind", "XX"}}
    \cup {Balance(u) : u \in UserHeaders}
    \cup {History(u) : u \in UserHeaders}

\* the fields every jsonify(...) of the handlers can carry; status 0: no response yet
NoResp == [status |-> 0, success |-> FALSE, error |-> "", uid |-> "", region |-> "",
           expiry |-> 0, time_remaining |-> 0, coins |-> 0, whitelisted |-> FALSE,
           added |-> 0, removed |-> 0, entries |-> <<>>, history |-> <<>>, user_id |-> ""]

Failure(status, error) == [NoResp EXCEPT !.status = status, !.error = error]
Success == [NoResp EXCEPT !.status = 200, !.success = TRUE]

NoLoc == [users |-> EmptyMap, whitelist |-> EmptyMap, expiry |-> 0, now |-> 0,
          i |-> 0, total |-> 0, expired |-> {}, entries |-> <<>>]

\* line 116, 177, 259: data.get("uid", "").strip()
Uid(r) == Strip(r.uid)

\* line 117, 178: data.get("region", "").upper()
Region(r) == IF r.region = NoRegion THEN "" ELSE Upper(r.region)

\* line 118: data.get("hours", DEFAULT_WHITELIST_HOURS)
Hours(r) == IF r.hours = <<>> THEN DEFAULT_WHITELIST_HOURS ELSE r.hours[1]

\* line 318: data.get("amount", 0)
Amount(r) == IF r.amount = <<>> THEN 0 ELSE r.amount[1]

\* line 319: data.get("reason", "ad_view")
Reason(r) == IF r.reason = <<>> THEN "ad_view" ELSE r.reason[1]

\* lines 70-74
get_user_id(r) == IF r.user = NoHeader THEN "default_user" ELSE r.user

(* ------------------------------------------------------------------ *)
(* File operations (lines 19-68)                                       *)
(* A file is <<>> when it does not exist and <<m>> when it holds the   *)
(* JSON text of the mapping m.                                         *)
(* ------------------------------------------------------------------ *)
NoFile == <<>>
FileOf(m) == <<m>>

NoObs == [alone |-> FALSE, t0 |-> 0, faults0 |-> 0,
          users0 |-> NoFile, whitelists0 |-> [f \in Paths |-> NoFile],
          solo |-> FALSE, own0 |-> NoFile]

\* lines 19-28: FileNotFoundError gives the default, which every caller passes as {}
load_json_file(file) == IF file = NoFile THEN EmptyMap ELSE file[1]

\* lines 30-42: the file after save_json_file(data, path): the temp file replaces it
\* when nothing raised (ok), and it is untouched otherwise
save_json_file(data, file, ok) == IF ok THEN FileOf(data) ELSE file

\* lines 48-53 (keys are stored as strings and values as integers: the coercion keeps them)
load_whitelist(region) == load_json_file(whitelists[get_whitelist_path(region)])

\* lines 55-60: the files after save_whitelist(region, whitelist_data)
save_whitelist(region, whitelist_data, ok) ==
    [whitelists EXCEPT ![get_whitelist_path(region)] = save_json_file(whitelist_data, @, ok)]

\* lines 62-64
load_users == load_json_file(users_file)

\* lines 66-68
save_users(users_data, ok) == save_json_file(users_data, users_file, ok)

\* the outcomes the storage allows a save: success, or an exception while MaxFaults allows
SaveOutcomes == IF nfault < MaxFaults THEN {TRUE, FALSE} ELSE {TRUE}

CountFault(ok) == nfault' = IF ok THEN nfault ELSE nfault + 1

\* lines 133, 326, 351: users.get(user_id, {"coins": 0, "history": []})
GetUser(users, user_id) ==
    IF user_id \in DOMAIN users THEN users[user_id] ELSE [coins |-> 0, history |-> <<>>]

(* ------------------------------------------------------------------ *)
(* Pure steps of the handlers                                          *)
(* ------------------------------------------------------------------ *)
\* a validation that forgot the bounds of hours
AddValidation_anyhours(r) ==
    IF Uid(r) = "" \/ ~IsDigit(Uid(r)) THEN "Invalid UID format"
    ELSE IF ~ValidRegion(Region(r)) THEN "Invalid region"
    ELSE ""

\* lines 121-128: the validation of add_to_whitelist; "" when the request passes
AddValidation(r) ==
    IF Uid(r) = "" \/ ~IsDigit(Uid(r)) THEN "Invalid UID format"
    ELSE IF ~ValidRegion(Region(r)) THEN "Invalid region"
    ELSE IF Hours(r) < MinHours \/ Hours(r) > MaxHours THEN "Hours must be between 1 and 720"
    ELSE ""

\* a check of the balance that only refuses an empty account
InsufficientCoins_empty(user_data) == user_data.coins <= 0

\* a handler that forgot to check the balance
InsufficientCoins_never(user_data) == FALSE

\* line 135: the user cannot pay
InsufficientCoins(user_data) == user_data.coins < COIN_COST_PER_UID

\* line 143
Expiry(t, hours) == t + hours * SecondsPerHour

\* an add that keeps the entry of a uid that is already stored
SetEntry_keep(whitelist, uid, expiry) ==
    IF uid \in DOMAIN whitelist THEN whitelist ELSE Put(whitelist, uid, expiry)

\* line 144: whitelist[uid] = expiry
SetEntry(whitelist, uid, expiry) == Put(whitelist, uid, expiry)

\* a debit that records the add and takes no coins
Debit_free(user_data, r, t) ==
    [user_data EXCEPT !.history = Append(@,
        [action |-> "whitelist_add", uid |-> Uid(r), region |-> Region(r),
         hours |-> Hours(r), cost |-> COIN_COST_PER_UID, amount |-> 0,
         reason |-> "", timestamp |-> t])]

\* lines 151-159: the account after the debit
Debit(user_data, r, t) ==
    [coins |-> user_data.coins - COIN_COST_PER_UID,
     history |-> Append(user_data.history,
                    [action |-> "whitelist_add", uid |-> Uid(r), region |-> Region(r),
                     hours |-> Hours(r), cost |-> COIN_COST_PER_UID, amount |-> 0,
                     reason |-> "", timestamp |-> t])]

\* line 321
InvalidAmount(amount) == amount <= 0 \/ amount > MaxAmount

\* a credit that adds the coins and writes no history entry
Credit_silent(user_data, r, t) == [user_data EXCEPT !.coins = @ + Amount(r)]

\* lines 328-334: the account after the credit
Credit(user_data, r, t) ==
    [coins |-> user_data.coins + Amount(r),
     history |-> Append(user_data.history,
                    [action |-> "coins_add", uid |-> "", region |-> "",
                     hours |-> 0, cost |-> 0, amount |-> Amount(r),
                     reason |-> Reason(r), timestamp |-> t])]

\* line 80: the expired uids of a whitelist
ExpiredUids(whitelist, t) == {uid \in DOMAIN whitelist : whitelist[uid] <= t}

\* lines 82-83
DeleteAll(whitelist, uids) == [uid \in (DOMAIN whitelist) \ uids |-> whitelist[uid]]

\* max(0, x)
Max0(x) == IF x > 0 THEN x ELSE 0

\* lines 211-220, 240-249: the entry that a list shows for uid at the clock t
Entry(uid, region, expiry, t) ==
    [uid |-> uid, region |-> region, expiry |-> expiry,
     status |-> IF expiry > t THEN "active" ELSE "expired",
     time_remaining |-> Max0(expiry - t)]

\* lines 210, 239: whitelist.items() runs through the keys in the order of the file,
\* which the mapping does not keep: every order of the keys
ItemOrders(whitelist) ==
    {o \in [1 .. Cardinality(DOMAIN whitelist) -> DOMAIN whitelist] :
        \A uid \in DOMAIN whitelist : \E i \in DOMAIN o : o[i] = uid}

\* lines 210-220, 239-249: the entries appended for the keys in the order o
Entries(whitelist, o, region, t) ==
    [i \in DOMAIN o |-> Entry(o[i], region, whitelist[o[i]], t)]

\* list.sort puts e behind the entries of the sorted list that do not expire later
Insert(sorted, e) ==
    LET k == Cardinality({i \in DOMAIN sorted : sorted[i].expiry <= e.expiry})
    IN  SubSeq(sorted, 1, k) \o <<e>> \o SubSeq(sorted, k + 1, Len(sorted))

\* a list that is returned in the order in which it was built
SortByExpiry_none(entries) == entries

\* lines 223, 251: entries.sort(key=lambda x: x["expiry"]), a stable sort
RECURSIVE SortByExpiry(_)
SortByExpiry(entries) ==
    IF entries = <<>> THEN <<>>
    ELSE Insert(SortByExpiry(SubSeq(entries, 1, Len(entries) - 1)), entries[Len(entries)])

\* an entry that counts as active for as long as it is stored
Active_stored(expiry, t) == TRUE

\* an entry that still counts as active at the instant it expires
Active_late(expiry, t) == expiry >= t

\* lines 276, 290: the entry is active
Active(expiry, t) == expiry > t


(* ------------------------------------------------------------------ *)
(* save_json_file and load_json_file on the file system (lines 19-42)  *)
(* One backing file and its temp file path + ".tmp": a directory maps   *)
(* the two names to inodes, an inode holds the chunks written to it.   *)
(* ------------------------------------------------------------------ *)
\* the mappings that the watched savers are given
SaveData == {("1" :> 3600), ("1" :> 3600 @@ "2" :> 7200)}

\* the inodes the two names and the open descriptors can need
Inodes == 1 .. 3
NoInode == 0

\* a chunk of the text of mapping m, and the zero bytes of a hole
Chunk(m, k) == [of |-> <<m>>, k |-> k]
Hole == [of |-> <<>>, k |-> 0]

\* line 35: the text json.dump writes for m, in the chunks that reach the file
Dump(m) == [k \in 1 .. NChunks |-> Chunk(m, k)]

\* the content after one write of chunk c at offset off (in chunks) of content
WriteAt(content, off, c) ==
    [k \in 1 .. (IF Len(content) > off + 1 THEN Len(content) ELSE off + 1) |->
        IF k = off + 1 THEN c ELSE IF k <= Len(content) THEN content[k] ELSE Hole]

\* line 23: json.load accepts content: it is the whole text of one mapping
Parses(content) ==
    /\ Len(content) = NChunks
    /\ content[1].of # <<>>
    /\ content = Dump(content[1].of[1])

Savers == {1, 2}

FsIdle == [pc |-> "idle", data |-> EmptyMap, fd |-> NoInode, off |-> 0, before |-> <<>>]

\* what the last call of a thread returned: nothing yet, True, False, or an exception
\* that left the call; with the mapping it was given and the file as it was at the call
NoRet == [value |-> "none", data |-> EmptyMap, before |-> <<>>]
Returned(f, t, value) == [value |-> value, data |-> f.saver[t].data, before |-> f.saver[t].before]

\* the file system before the first save: no file, no temp file
FsInit ==
    [names |-> [path |-> NoInode, tmp |-> NoInode],
     inode |-> [i \in Inodes |-> <<>>],
     saver |-> [t \in Savers |-> FsIdle],
     given |-> {},
     saved |-> {},
     ret |-> [t \in Savers |-> NoRet],
     loaded |-> [what |-> "none", value |-> EmptyMap],
     nsave |-> 0, nfault |-> 0, ncrash |-> 0]

\* an inode that no name and no open descriptor refers to
FreeInode(f) ==
    CHOOSE i \in Inodes :
        /\ i \notin {f.names.path, f.names.tmp}
        /\ \A t \in Savers : f.saver[t].fd # i
        /\ \A j \in Inodes :
              (j \notin {f.names.path, f.names.tmp} /\ \A t \in Savers : f.saver[t].fd # j)
                  => i <= j

\* the storage may raise in a system call while MaxFaults allows
MayRaise == fs.nfault < MaxFaults

ServerVars == <<whitelists, users_file, now, pc, req, loc, obs, out, tally, nreq, nfault>>

\* line 30: a thread calls save_json_file(data, path)
SaveCall(t) ==
    /\ fs.saver[t].pc = "idle"
    /\ fs.nsave < MaxSaves
    /\ \E m \in SaveData :
        fs' = [fs EXCEPT !.saver[t] =
                            [FsIdle EXCEPT !.pc = "open", !.data = m,
                                           !.before = IF fs.names.path = NoInode THEN <<>>
                                                      ELSE fs.inode[fs.names.path]],
                         !.ret[t] = NoRet,
                         !.given = @ \cup {m},
                         !.nsave = @ + 1]
    /\ UNCHANGED ServerVars

\* line 34: open(tmp_path, "w") truncates the temp file or creates it, or raises
SaveOpen(t) ==
    /\ fs.saver[t].pc = "open"
    /\ \/ LET i == IF fs.names.tmp # NoInode THEN fs.names.tmp ELSE FreeInode(fs)
          IN  fs' = [fs EXCEPT !.names.tmp = i,
                               !.inode[i] = <<>>,
                               !.saver[t].fd = i,
                               !.saver[t].pc = "write"]
       \/ /\ MayRaise
          /\ fs' = [fs EXCEPT !.saver[t].pc = "except", !.nfault = @ + 1]
    /\ UNCHANGED ServerVars

\* line 35: one write of json.dump at the descriptor's offset, or it raises; after the
\* last one the with statement closes the descriptor
SaveWrite(t) ==
    /\ fs.saver[t].pc = "write"
    /\ LET me == fs.saver[t]
           last == me.off + 1 = NChunks
       IN  \/ fs' = [fs EXCEPT !.inode[me.fd] = WriteAt(@, me.off, Chunk(me.data, me.off + 1)),
                               !.saver[t].off = IF last THEN 0 ELSE @ + 1,
                               !.saver[t].fd = IF last THEN NoInode ELSE @,
                               !.saver[t].pc = IF last THEN "replace" ELSE "write"]
           \/ /\ MayRaise
              /\ fs' = [fs EXCEPT !.saver[t].pc = "except", !.saver[t].fd = NoInode,
                                  !.saver[t].off = 0, !.nfault = @ + 1]
    /\ UNCHANGED ServerVars

\* lines 36-37: os.replace(tmp_path, path) renames the temp file over the file and the
\* call returns True; it raises FileNotFoundError when the temp file is gone
SaveReplace(t) ==
    /\ fs.saver[t].pc = "replace"
    /\ IF fs.names.tmp = NoInode
       THEN fs' = [fs EXCEPT !.saver[t].pc = "except"]
       ELSE \/ fs' = [fs EXCEPT !.names = [path |-> fs.names.tmp, tmp |-> NoInode],
                                !.saved = @ \cup {fs.saver[t].data},
                                !.ret[t] = Returned(fs, t, "True"),
                                !.saver[t] = FsIdle]
            \/ /\ MayRaise
               /\ fs' = [fs EXCEPT !.saver[t].pc = "except", !.nfault = @ + 1]
    /\ UNCHANGED ServerVars

\* lines 38-40, 42: the handler of the exception tests os.path.exists(tmp_path)
SaveExcept(t) ==
    /\ fs.saver[t].pc = "except"
    /\ fs' = IF fs.names.tmp # NoInode
             THEN [fs EXCEPT !.saver[t].pc = "remove"]
             ELSE [fs EXCEPT !.ret[t] = Returned(fs, t, "False"), !.saver[t] = FsIdle]
    /\ UNCHANGED ServerVars

\* lines 41-42: os.remove(tmp_path) unlinks whatever the name refers to now; when the
\* name is gone it raises out of the call, which ends either way
SaveRemove(t) ==
    /\ fs.saver[t].pc = "remove"
    /\ fs' = [fs EXCEPT !.names.tmp = NoInode,
                         !.ret[t] = Returned(fs, t, IF fs.names.tmp = NoInode
                                                    THEN "FileNotFoundError" ELSE "False"),
                         !.saver[t] = FsIdle]
    /\ UNCHANGED ServerVars

\* lines 19-28: load_json_file(path, {}) of a reader: the default for a missing file
\* and for a text that json.load rejects
LoadFile ==
    /\ LET i == fs.names.path
       IN  fs' = [fs EXCEPT !.loaded =
                    IF i = NoInode THEN [what |-> "missing", value |-> EmptyMap]
                    ELSE IF Parses(fs.inode[i])
                    THEN [what |-> "parsed", value |-> fs.inode[i][1].of[1]]
                    ELSE [what |-> "rejected", value |-> EmptyMap]]
    /\ fs'.loaded # fs.loaded
    /\ UNCHANGED ServerVars

\* the server process dies: its threads and their descriptors are gone, the files stay
Crash ==
    /\ fs.ncrash < MaxCrashes
    /\ \E t \in Savers : fs.saver[t].pc # "idle"
    /\ fs' = [fs EXCEPT !.saver = [t \in Savers |-> FsIdle],
                         !.ret = [t \in Savers |-> NoRet],
                         !.ncrash = @ + 1]
    /\ UNCHANGED ServerVars

(* ------------------------------------------------------------------ *)
(* Initial state, clock, request arrival                               *)
(* ------------------------------------------------------------------ *)
\* no response was sent by the step just taken
NoOut == [proc |-> 0, req |-> NoReq, resp |-> NoResp, obs |-> NoObs]

\* the user ids of the requests
Users == {get_user_id([NoReq EXCEPT !.user = h]) : h \in UserHeaders}

\* nothing was told to any client yet
NoTally == [credited |-> [u \in Users |-> 0], granted |-> [u \in Users |-> 0],
            added |-> {}, removing |-> FALSE]

\* the tally after the response resp to the request r: a credit that reported success
\* counts its amount, an add that reported success counts as granted and its entry as
\* added
Told(t, r, resp) ==
    IF r.kind = "credit" /\ resp.success
    THEN [t EXCEPT !.credited[get_user_id(r)] = @ + Amount(r)]
    ELSE IF r.kind = "add" /\ resp.success
    THEN [t EXCEPT !.granted[get_user_id(r)] = @ + 1,
                   !.added = @ \cup {<<Region(r), Uid(r)>>}]
    ELSE t

\* lines 409-423: the server starts by creating every missing file with an empty mapping
Fresh ==
    [whitelists |-> [f \in Paths |-> save_json_file(EmptyMap, NoFile, TRUE)],
     users_file |-> save_json_file(EmptyMap, NoFile, TRUE),
     tally |-> NoTally]

\* the files after the server whose files are st served the valid request r alone, at
\* time 0 and with no failed save: add_coins (lines 324-337) and, for a user who can
\* pay, add_to_whitelist (lines 131-161)
Served(st, r) ==
    LET users == load_json_file(st.users_file)
        user_id == get_user_id(r)
        path == get_whitelist_path(Region(r))
    IN  IF r.kind = "credit"
        THEN [st EXCEPT !.users_file =
                           FileOf(Put(users, user_id, Credit(GetUser(users, user_id), r, 0))),
                        !.tally = Told(@, r, Success)]
        ELSE [whitelists |-> [st.whitelists EXCEPT ![path] =
                 FileOf(SetEntry(load_json_file(@), Uid(r), Expiry(0, Hours(r))))],
              users_file |->
                 FileOf(Put(users, user_id, Debit(GetUser(users, user_id), r, 0))),
              tally |-> Told(st.tally, r, Success)]

\* the states in which the model starts to watch the server: the fresh one, one with
\* a user who can pay one add, one with that user's two entries in a region, and one
\* with that user's entries for one uid in two regions
Seeds ==
    {Fresh,
     Served(Fresh, Coins(NoHeader, <<100>>, <<>>)),
     Served(Served(Served(Fresh, Coins(NoHeader, <<300>>, <<>>)),
                   Add(NoHeader, "1", "ME", <<>>)),
            Add(NoHeader, " 2", "ME", <<1>>)),
     Served(Served(Served(Fresh, Coins(NoHeader, <<300>>, <<>>)),
                   Add(NoHeader, "1", "ME", <<1>>)),
            Add(NoHeader, "1", "ind", <<>>))}

Init ==
    /\ \E st \in Seeds :
        /\ whitelists = st.whitelists
        /\ users_file = st.users_file
        /\ tally = st.tally
    /\ now = 0
    /\ pc = [p \in Procs |-> "idle"]
    /\ req = [p \in Procs |-> NoReq]
    /\ loc = [p \in Procs |-> NoLoc]
    /\ obs = [p \in Procs |-> NoObs]
    /\ out = NoOut
    /\ nreq = 0
    /\ nfault = 0
    /\ fs = FsInit

\* time.time() moves on
Tick ==
    /\ now < MaxTicks * SecondsPerHour
    /\ now' = now + SecondsPerHour
    /\ out' = NoOut
    /\ UNCHANGED <<whitelists, users_file, pc, req, loc, obs, tally, nreq, nfault, fs>>

\* the regions whose partition the handler of the request r can write
Targets(r) ==
    IF r.kind = "cleanup" THEN RegionSet
    ELSE IF r.kind \in {"add", "remove"} /\ ValidRegion(Region(r)) THEN {Region(r)}
    ELSE {}

\* what is recorded of the request r when it comes in: whether it writes one region,
\* and that region's file
Solo(r) ==
    IF r.kind \in {"add", "remove"} /\ ValidRegion(Region(r))
    THEN [NoObs EXCEPT !.solo = TRUE, !.own0 = whitelists[get_whitelist_path(Region(r))]]
    ELSE NoObs

\* the observations after a step of thread p: mine for its own request, and every
\* other running request has now run concurrently with a step of p.  An observation
\* holds, while the request has run alone, the time it came in and the files as they
\* were and the failed saves counted then; and, while no step of a request that can
\* write the same region ran concurrently, the file of its region as it was then
Observe(p, mine) ==
    obs' = [q \in Procs |-> IF q = p THEN mine
                            ELSE IF pc[q] = "idle" THEN obs[q]
                            ELSE IF obs[q].solo /\ Targets(req[p]) \cap Targets(req[q]) = {}
                            THEN [NoObs EXCEPT !.solo = TRUE, !.own0 = obs[q].own0]
                            ELSE NoObs]

\* thread p returns r: the response goes out and the handler's locals die
Return(p, r) ==
    /\ out' = [proc |-> p, req |-> req[p], resp |-> r, obs |-> obs[p]]
    /\ tally' = Told(tally, req[p], r)
    /\ UNCHANGED fs
    /\ pc' = [pc EXCEPT ![p] = "idle"]
    /\ req' = [req EXCEPT ![p] = NoReq]
    /\ loc' = [loc EXCEPT ![p] = NoLoc]
    /\ Observe(p, NoObs)

\* thread p goes on at position l with locals v
Goto(p, l, v) ==
    /\ out' = NoOut
    /\ pc' = [pc EXCEPT ![p] = l]
    /\ loc' = [loc EXCEPT ![p] = v]
    /\ Observe(p, obs[p])
    /\ UNCHANGED <<req, tally, fs>>

\* the threads of the pool that take the next request: the first idle one
Free == {p \in Procs : pc[p] = "idle" /\ \A q \in Procs : pc[q] = "idle" => ~(q < p)}

\* Flask hands a request to the route's handler in thread p (lines 112, 173, 255, 314, 385)
Request(p) ==
    /\ p \in Free
    /\ nreq < MaxReqs
    /\ \E r \in Requests :
        /\ req' = [req EXCEPT ![p] = r]
        /\ pc' = [pc EXCEPT ![p] = r.kind]
        /\ tally' = [tally EXCEPT !.removing = @ \/ r.kind \in {"remove", "cleanup"}]
        /\ Observe(p, IF \A q \in Procs \ {p} : pc[q] = "idle"
                       THEN [Solo(r) EXCEPT !.alone = TRUE, !.t0 = now, !.faults0 = nfault,
                                            !.users0 = users_file, !.whitelists0 = whitelists]
                       ELSE Solo(r))
    /\ out' = NoOut
    /\ nreq' = nreq + 1
    /\ UNCHANGED <<whitelists, users_file, now, loc, nfault, fs>>

(* ------------------------------------------------------------------ *)
(* add_to_whitelist (lines 112-171)                                    *)
(* ------------------------------------------------------------------ *)
\* lines 115-139: validation, load_users, the check of the balance
AddCheck(p) ==
    /\ pc[p] = "add"
    /\ LET r == req[p]
           users == load_users
           user_data == GetUser(users, get_user_id(r))
       IN  IF AddValidation(r) # ""
           THEN Return(p, Failure(400, AddValidation(r)))
           ELSE IF InsufficientCoins(user_data)
           THEN Return(p, [Failure(400, "Insufficient coins") EXCEPT !.coins = user_data.coins])
           ELSE Goto(p, "add_load", [loc[p] EXCEPT !.users = users])
    /\ UNCHANGED <<whitelists, users_file, now, nreq, nfault>>

\* lines 142-144: load_whitelist, the expiry, the entry
AddLoad(p) ==
    /\ pc[p] = "add_load"
    /\ LET r == req[p]
           expiry == Expiry(now, Hours(r))
       IN  Goto(p, "add_save", [loc[p] EXCEPT !.expiry = expiry,
                                   !.whitelist = SetEntry(load_whitelist(Region(r)), Uid(r), expiry)])
    /\ UNCHANGED <<whitelists, users_file, now, nreq, nfault>>

\* lines 147-148: save_whitelist, and the 500 when it fails
AddSave(p) ==
    /\ pc[p] = "add_save"
    /\ \E ok \in SaveOutcomes :
        /\ whitelists' = save_whitelist(Region(req[p]), loc[p].whitelist, ok)
        /\ CountFault(ok)
        /\ IF ok THEN Goto(p, "add_charge", loc[p])
                 ELSE Return(p, Failure(500, "Failed to save whitelist"))
    /\ UNCHANGED <<users_file, now, nreq>>

\* lines 150-171: the debit, save_users (its result is dropped), the response
AddCharge(p) ==
    /\ pc[p] = "add_charge"
    /\ LET r == req[p]
           user_id == get_user_id(r)
           user_data == Debit(GetUser(loc[p].users, user_id), r, now)
           users == Put(loc[p].users, user_id, user_data)
       IN  /\ \E ok \in SaveOutcomes :
                /\ users_file' = save_users(users, ok)
                /\ CountFault(ok)
           /\ Return(p, [Success EXCEPT !.uid = Uid(r), !.region = Region(r),
                                        !.expiry = loc[p].expiry,
                                        !.time_remaining = Hours(r) * SecondsPerHour,
                                        !.coins = user_data.coins])
    /\ UNCHANGED <<whitelists, now, nreq>>

(* ------------------------------------------------------------------ *)
(* add_coins (lines 314-344)                                           *)
(* ------------------------------------------------------------------ *)
\* lines 317-326: validation, load_users
CreditLoad(p) ==
    /\ pc[p] = "credit"
    /\ IF InvalidAmount(Amount(req[p]))
       THEN Return(p, Failure(400, "Invalid amount"))
       ELSE Goto(p, "credit_save", [loc[p] EXCEPT !.users = load_users])
    /\ UNCHANGED <<whitelists, users_file, now, nreq, nfault>>

\* lines 328-344: the credit, save_users (its result is dropped), the response
CreditSave(p) ==
    /\ pc[p] = "credit_save"
    /\ LET r == req[p]
           user_id == get_user_id(r)
           user_data == Credit(GetUser(loc[p].users, user_id), r, now)
           users == Put(loc[p].users, user_id, user_data)
       IN  /\ \E ok \in SaveOutcomes :
                /\ users_file' = save_users(users, ok)
                /\ CountFault(ok)
           /\ Return(p, [Success EXCEPT !.coins = user_data.coins, !.added = Amount(r)])
    /\ UNCHANGED <<whitelists, now, nreq>>

(* ------------------------------------------------------------------ *)
(* remove_from_whitelist (lines 173-199)                               *)
(* ------------------------------------------------------------------ *)
\* lines 176-193: validation, load_whitelist, the 404, the deletion
RemoveLoad(p) ==
    /\ pc[p] = "remove"
    /\ LET r == req[p]
           whitelist == load_whitelist(Region(r))
       IN  IF Uid(r) = ""
           THEN Return(p, Failure(400, "UID is required"))
           ELSE IF ~ValidRegion(Region(r))
           THEN Return(p, Failure(400, "Invalid region"))
           ELSE IF Uid(r) \notin DOMAIN whitelist
           THEN Return(p, [Failure(404, "not found in whitelist") EXCEPT
                              !.uid = Uid(r), !.region = Region(r)])
           ELSE Goto(p, "remove_save", [loc[p] EXCEPT !.whitelist = Del(whitelist, Uid(r))])
    /\ UNCHANGED <<whitelists, users_file, now, nreq, nfault>>

\* lines 196-199: save_whitelist, the 500 when it fails, the response
RemoveSave(p) ==
    /\ pc[p] = "remove_save"
    /\ \E ok \in SaveOutcomes :
        /\ whitelists' = save_whitelist(Region(req[p]), loc[p].whitelist, ok)
        /\ CountFault(ok)
        /\ IF ok THEN Return(p, [Success EXCEPT !.uid = Uid(req[p]), !.region = Region(req[p])])
                 ELSE Return(p, Failure(500, "Failed to save whitelist"))
    /\ UNCHANGED <<users_file, now, nreq>>

(* ------------------------------------------------------------------ *)
(* check_whitelist (lines 255-299)                                     *)
(* ------------------------------------------------------------------ *)
\* lines 274-283, 288-297: the response to a uid found active in region, or NoResp
CheckEntry(whitelist, uid, region, t) ==
    IF uid \in DOMAIN whitelist /\ Active(whitelist[uid], t)
    THEN [Success EXCEPT !.whitelisted = TRUE, !.region = region,
                         !.expiry = whitelist[uid],
                         !.time_remaining = whitelist[uid] - t]
    ELSE NoResp

\* line 299
NotWhitelisted == [Success EXCEPT !.whitelisted = FALSE]

\* lines 258-271: validation, the clock, the choice between one region and all
CheckBegin(p) ==
    /\ pc[p] = "check"
    /\ LET r == req[p]
       IN  IF Uid(r) = ""
           THEN Return(p, Failure(400, "UID is required"))
           ELSE IF r.region = NoRegion
           THEN Goto(p, "check_all", [loc[p] EXCEPT !.now = now, !.i = 1])
           ELSE IF ~ValidRegion(Region(r))
           THEN Return(p, Failure(400, "Invalid region"))
           ELSE Goto(p, "check_region", [loc[p] EXCEPT !.now = now])
    /\ UNCHANGED <<whitelists, users_file, now, nreq, nfault>>

\* lines 273-283, 299: the region given
CheckRegion(p) ==
    /\ pc[p] = "check_region"
    /\ LET r == req[p]
           found == CheckEntry(load_whitelist(Region(r)), Uid(r), Region(r), loc[p].now)
       IN  Return(p, IF found # NoResp THEN found ELSE NotWhitelisted)
    /\ UNCHANGED <<whitelists, users_file, now, nreq, nfault>>

\* lines 286-299: one round of the loop over ALL_REGIONS
CheckAll(p) ==
    /\ pc[p] = "check_all"
    /\ LET r == req[p]
           reg == ALL_REGIONS[loc[p].i]
           found == CheckEntry(load_whitelist(reg), Uid(r), reg, loc[p].now)
       IN  IF found # NoResp
           THEN Return(p, found)
           ELSE IF loc[p].i = Len(ALL_REGIONS)
           THEN Return(p, NotWhitelisted)
           ELSE Goto(p, "check_all", [loc[p] EXCEPT !.i = @ + 1])
    /\ UNCHANGED <<whitelists, users_file, now, nreq, nfault>>

(* ------------------------------------------------------------------ *)
(* list_whitelist (lines 201-225)                                      *)
(* ------------------------------------------------------------------ *)
\* lines 204-205: the clock
ListBegin(p) ==
    /\ pc[p] = "list"
    /\ Goto(p, "list_loop", [loc[p] EXCEPT !.now = now, !.i = 1])
    /\ UNCHANGED <<whitelists, users_file, now, nreq, nfault>>

\* lines 207-225: one round of the loop over ALL_REGIONS; the sort and the response
\* after the last one
ListLoop(p) ==
    /\ pc[p] = "list_loop"
    /\ LET region == ALL_REGIONS[loc[p].i]
           whitelist == load_whitelist(region)
       IN  \E o \in ItemOrders(whitelist) :
              LET all_entries == loc[p].entries \o Entries(whitelist, o, region, loc[p].now)
              IN  IF loc[p].i = Len(ALL_REGIONS)
                  THEN Return(p, [Success EXCEPT !.entries = SortByExpiry(all_entries)])
                  ELSE Goto(p, "list_loop", [loc[p] EXCEPT !.i = @ + 1, !.entries = all_entries])
    /\ UNCHANGED <<whitelists, users_file, now, nreq, nfault>>

(* ------------------------------------------------------------------ *)
(* list_whitelist_by_region (lines 227-253)                            *)
(* ------------------------------------------------------------------ *)
\* lines 230-235: validation, load_whitelist
ListRegionLoad(p) ==
    /\ pc[p] = "list_region"
    /\ IF ~ValidRegion(Region(req[p]))
       THEN Return(p, Failure(400, "Invalid region"))
       ELSE Goto(p, "list_region_reply",
                 [loc[p] EXCEPT !.whitelist = load_whitelist(Region(req[p]))])
    /\ UNCHANGED <<whitelists, users_file, now, nreq, nfault>>

\* lines 236-253: the clock, the entries, the sort, the response
ListRegionReply(p) ==
    /\ pc[p] = "list_region_reply"
    /\ \E o \in ItemOrders(loc[p].whitelist) :
          Return(p, [Success EXCEPT !.entries =
                        SortByExpiry(Entries(loc[p].whitelist, o, Region(req[p]), now))])
    /\ UNCHANGED <<whitelists, users_file, now, nreq, nfault>>

(* ------------------------------------------------------------------ *)
(* get_coin_balance (lines 301-312), get_coin_history (lines 346-356)  *)
(* ------------------------------------------------------------------ *)
\* a balance read that stores the default account of a user it does not know
GetCoinBalance_create(p) ==
    /\ pc[p] = "balance"
    /\ LET user_id == get_user_id(req[p])
           user_data == GetUser(load_users, user_id)
       IN  /\ users_file' = save_users(Put(load_users, user_id, user_data), TRUE)
           /\ Return(p, [Success EXCEPT !.user_id = user_id, !.coins = user_data.coins])
    /\ UNCHANGED <<whitelists, now, nreq, nfault>>

\* lines 304-312
GetCoinBalance(p) ==
    /\ pc[p] = "balance"
    /\ LET user_id == get_user_id(req[p])
           user_data == GetUser(load_users, user_id)
       IN  Return(p, [Success EXCEPT !.user_id = user_id, !.coins = user_data.coins])
    /\ UNCHANGED <<whitelists, users_file, now, nreq, nfault>>

\* lines 349-356
GetCoinHistory(p) ==
    /\ pc[p] = "history"
    /\ LET user_data == GetUser(load_users, get_user_id(req[p]))
       IN  Return(p, [Success EXCEPT !.history = user_data.history])
    /\ UNCHANGED <<whitelists, users_file, now, nreq, nfault>>

(* ------------------------------------------------------------------ *)
(* cleanup_expired and clean_expired_entries (lines 76-88, 385-397)    *)
(* ------------------------------------------------------------------ *)
\* lines 390-397: region number i is done and removed entries were counted for it
CleanupNext(p, i, removed) ==
    IF i = Len(ALL_REGIONS)
    THEN Return(p, [Success EXCEPT !.removed = loc[p].total + removed])
    ELSE Goto(p, "cleanup", [NoLoc EXCEPT !.i = i, !.total = loc[p].total + removed])

\* lines 78-83, 85, 88: load_whitelist, the clock, the expired uids and their deletion;
\* with none expired the function returns 0 without saving
CleanupLoad(p) ==
    /\ pc[p] = "cleanup"
    /\ LET region == ALL_REGIONS[loc[p].i + 1]
           whitelist == load_whitelist(region)
           expired_uids == ExpiredUids(whitelist, now)
       IN  IF expired_uids = {}
           THEN CleanupNext(p, loc[p].i + 1, 0)
           ELSE Goto(p, "cleanup_save", [loc[p] EXCEPT !.now = now, !.expired = expired_uids,
                                            !.whitelist = DeleteAll(whitelist, expired_uids)])
    /\ UNCHANGED <<whitelists, users_file, now, nreq, nfault>>

\* lines 85-88: save_whitelist (its result is dropped), the count
CleanupSave(p) ==
    /\ pc[p] = "cleanup_save"
    /\ \E ok \in SaveOutcomes :
        /\ whitelists' = save_whitelist(ALL_REGIONS[loc[p].i + 1], loc[p].whitelist, ok)
        /\ CountFault(ok)
    /\ CleanupNext(p, loc[p].i + 1, Cardinality(loc[p].expired))
    /\ UNCHANGED <<users_file, now, nreq>>

(* ------------------------------------------------------------------ *)
(* The server                                                          *)
(* ------------------------------------------------------------------ *)
Next ==
    \/ Tick
    \/ \E p \in Procs : Request(p)
    \/ \E p \in Procs : AddCheck(p)
    \/ \E p \in Procs : AddLoad(p)
    \/ \E p \in Procs : AddSave(p)
    \/ \E p \in Procs : AddCharge(p)
    \/ \E p \in Procs : CreditLoad(p)
    \/ \E p \in Procs : CreditSave(p)
    \/ \E p \in Procs : RemoveLoad(p)
    \/ \E p \in Procs : RemoveSave(p)
    \/ \E p \in Procs : CheckBegin(p)
    \/ \E p \in Procs : CheckRegion(p)
    \/ \E p \in Procs : CheckAll(p)
    \/ \E p \in Procs : CleanupLoad(p)
    \/ \E p \in Procs : CleanupSave(p)
    \/ \E p \in Procs : ListBegin(p)
    \/ \E p \in Procs : ListLoop(p)
    \/ \E p \in Procs : ListRegionLoad(p)
    \/ \E p \in Procs : ListRegionReply(p)
    \/ \E p \in Procs : GetCoinBalance(p)
    \/ \E p \in Procs : GetCoinHistory(p)

Spec == Init /\ [][Next]_vars

\* the threads of the server saving one file, a reader of the file, and crashes
SaveInit ==
    /\ whitelists = Fresh.whitelists
    /\ users_file = Fresh.users_file
    /\ tally = NoTally
    /\ now = 0
    /\ pc = [p \in Procs |-> "idle"]
    /\ req = [p \in Procs |-> NoReq]
    /\ loc = [p \in Procs |-> NoLoc]
    /\ obs = [p \in Procs |-> NoObs]
    /\ out = NoOut
    /\ nreq = 0
    /\ nfault = 0
    /\ fs = FsInit

SaveNext ==
    \/ \E t \in Savers : SaveCall(t)
    \/ \E t \in Savers : SaveOpen(t)
    \/ \E t \in Savers : SaveWrite(t)
    \/ \E t \in Savers : SaveReplace(t)
    \/ \E t \in Savers : SaveExcept(t)
    \/ \E t \in Savers : SaveRemove(t)
    \/ LoadFile
    \/ Crash

SaveSpec == SaveInit /\ [][SaveNext]_vars


(* ------------------------------------------------------------------ *)
(* What the claims speak of                                            *)
(* ------------------------------------------------------------------ *)
\* the persisted account map and the persisted partition of a region
Accounts == load_json_file(users_file)
Partition(region) == load_json_file(whitelists[get_whitelist_path(region)])

\* the same when the request of the response `out` came in (it ran alone)
Accounts0 == load_json_file(out.obs.users0)
Partition0(region) == load_json_file(out.obs.whitelists0[get_whitelist_path(region)])

\* the response `out` answers a request of this kind that no step of another thread
\* ran concurrently with
Alone(kind) == out.req.kind = kind /\ out.obs.alone

IsPrefix(h, g) == Len(h) <= Len(g) /\ SubSeq(g, 1, Len(h)) = h

\* C1: a valid add by a user whose persisted balance is below the cost returns the
\* insufficient-coins error in that very step, and the step changes no partition and
\* no account.
C1_InsufficientFunds ==
    [][\A p \in Procs :
         (/\ pc[p] = "add"
          /\ pc'[p] # "add"
          /\ AddValidation(req[p]) = ""
          /\ GetUser(Accounts, get_user_id(req[p])).coins < COIN_COST_PER_UID)
         => (/\ out'.proc = p
             /\ ~out'.resp.success
             /\ out'.resp.status = 400
             /\ out'.resp.error = "Insufficient coins"
             /\ whitelists' = whitelists
             /\ users_file' = users_file)]_vars

\* C1 witness: a user holding 50 coins was refused
C1_Witness ==
    /\ out.req.kind = "add"
    /\ out.resp.error = "Insufficient coins"
    /\ out.resp.coins = 50
    /\ GetUser(Accounts, get_user_id(out.req)).coins = 50

\* C2: a paid add that ran alone, with no failed save, and reported success took
\* exactly the cost from the caller's balance, appended exactly one whitelist_add
\* entry to the caller's history, left every other account as it was, and left the
\* uid in the target partition with the returned expiry, which is the clock read
\* during the request plus hours * 3600 (so the entry was active then).
C2_PaidAdd ==
    (Alone("add") /\ out.resp.success /\ nfault = 0) =>
        LET r == out.req
            id == get_user_id(r)
            before == GetUser(Accounts0, id)
            n == Len(before.history)
        IN  /\ DOMAIN Accounts = (DOMAIN Accounts0) \cup {id}
            /\ \A u \in (DOMAIN Accounts) \ {id} : Accounts[u] = Accounts0[u]
            /\ Accounts[id].coins = before.coins - COIN_COST_PER_UID
            /\ out.resp.coins = Accounts[id].coins
            /\ Len(Accounts[id].history) = n + 1
            /\ IsPrefix(before.history, Accounts[id].history)
            /\ Accounts[id].history[n + 1].action = "whitelist_add"
            /\ Accounts[id].history[n + 1].uid = Uid(r)
            /\ Accounts[id].history[n + 1].region = Region(r)
            /\ Accounts[id].history[n + 1].cost = COIN_COST_PER_UID
            /\ Uid(r) \in DOMAIN Partition(Region(r))
            /\ Partition(Region(r))[Uid(r)] = out.resp.expiry
            /\ out.resp.expiry - Hours(r) * SecondsPerHour \in out.obs.t0 .. now
            /\ out.resp.time_remaining = Hours(r) * SecondsPerHour
            /\ out.resp.time_remaining > 0

\* C2 witness: a user holding exactly 100 coins paid for an add and holds 0
C2_Witness ==
    /\ Alone("add") /\ out.resp.success /\ nfault = 0
    /\ GetUser(Accounts0, get_user_id(out.req)).coins = COIN_COST_PER_UID
    /\ Accounts[get_user_id(out.req)].coins = 0
    /\ Uid(out.req) \notin DOMAIN Partition0(Region(out.req))

\* C3: the persisted balance of every user is at least 0 in every reachable state.
C3_BalanceNonNegative ==
    \A u \in DOMAIN Accounts : Accounts[u].coins >= 0

\* C3 witness: an add that ran concurrently with another request was answered with
\* success and the user's persisted balance is 0
C3_Witness ==
    /\ out.req.kind = "add" /\ out.resp.success /\ ~out.obs.alone
    /\ nreq = MaxReqs
    /\ get_user_id(out.req) \in DOMAIN Accounts
    /\ Accounts[get_user_id(out.req)].coins = 0

\* C4: with no failed save, the adds granted to a user times the cost never exceed
\* the coins credited to that user.
C4_NoFreeAdd ==
    nfault = 0 =>
        \A u \in Users : tally.granted[u] * COIN_COST_PER_UID <= tally.credited[u]

\* the two plain outcomes of a request
PlainSuccess(r) == r.success /\ r.status = 200
PlainFailure(r) == ~r.success

\* C5: when the whitelist was saved and the save of the debit fails, the response is
\* neither a plain success nor a plain failure.
C5_PartialSuccess ==
    [][\A p \in Procs :
         (pc[p] = "add_charge" /\ pc'[p] = "idle" /\ nfault' = nfault + 1)
         => ~PlainSuccess(out'.resp) /\ ~PlainFailure(out'.resp)]_vars

\* C6: no successful update is lost: with no failed save, every user's persisted
\* balance is the coins credited minus the cost of the adds granted and, while no
\* remove and no cleanup was requested, every uid whose add was granted is stored in
\* its region's partition.
C6_NoLostUpdate ==
    nfault = 0 =>
        /\ \A u \in Users :
              GetUser(Accounts, u).coins
                  = tally.credited[u] - tally.granted[u] * COIN_COST_PER_UID
        /\ ~tally.removing =>
              \A e \in tally.added : e[2] \in DOMAIN Partition(e[1])

\* C7: the file under the path is absent or holds the whole text of one mapping that
\* was given to a save, at every point of every execution of SaveSpec (two threads
\* saving the same file, failing system calls, a crash).
C7_AtomicSave ==
    \/ fs.names.path = NoInode
    \/ \E m \in fs.given : fs.inode[fs.names.path] = Dump(m)

\* the entries that were in the partitions when the request of `out` came in and are
\* not there now
Removed ==
    UNION {{<<g, uid>> : uid \in (DOMAIN Partition0(g)) \ (DOMAIN Partition(g))} : g \in RegionSet}

\* C8: after a cleanup that ran alone, no partition holds an entry that was expired
\* when the cleanup came in, every entry that is not expired now is still there with
\* its expiry, and the count returned is the number of entries removed from the files.
C8_Sweep ==
    (Alone("cleanup") /\ out.resp.success) =>
        /\ \A g \in RegionSet :
              /\ \A uid \in DOMAIN Partition(g) : Partition(g)[uid] > out.obs.t0
              /\ \A uid \in DOMAIN Partition0(g) :
                    Partition0(g)[uid] > now =>
                        uid \in DOMAIN Partition(g) /\ Partition(g)[uid] = Partition0(g)[uid]
        /\ out.resp.removed = Cardinality(Removed)

\* C9: an add that ran alone and reported success for a uid that was already stored
\* in the region, active or expired, leaves the partition with the same keys, the uid
\* with the expiry of this call (the clock read during the request plus hours * 3600)
\* and every other entry as it was.
C9_ReAdd ==
    (Alone("add") /\ out.resp.success /\ Uid(out.req) \in DOMAIN Partition0(Region(out.req))) =>
        LET r == out.req
            was == Partition0(Region(r))
            is == Partition(Region(r))
        IN  /\ DOMAIN is = DOMAIN was
            /\ is[Uid(r)] = out.resp.expiry
            /\ out.resp.expiry - Hours(r) * SecondsPerHour \in out.obs.t0 .. now
            /\ \A uid \in (DOMAIN was) \ {Uid(r)} : is[uid] = was[uid]

\* C9 witness: an active entry added for 24 hours was added again for 1 hour and now
\* expires earlier than before
C9_Witness ==
    /\ Alone("add") /\ out.resp.success
    /\ Uid(out.req) \in DOMAIN Partition0(Region(out.req))
    /\ Partition0(Region(out.req))[Uid(out.req)] > now
    /\ Partition(Region(out.req))[Uid(out.req)] < Partition0(Region(out.req))[Uid(out.req)]

\* the regions a check request looks into
Checked(r) == IF r.region = NoRegion THEN RegionSet ELSE {Region(r)}

\* C10: a check that ran alone reports whitelisted with the stored expiry and with
\* remaining = expiry - t > 0, where t is the clock it read, only for an entry with
\* t < expiry; it reports not whitelisted only when no entry of the uid in the regions
\* it looks into expires after now.  So the remaining time falls as the clock read
\* grows, and an entry is not reported once the clock read has reached its expiry.
C10_CheckTTL ==
    (Alone("check") /\ out.resp.success) =>
        LET r == out.req
        IN  IF out.resp.whitelisted
            THEN /\ out.resp.region \in Checked(r)
                 /\ Uid(r) \in DOMAIN Partition(out.resp.region)
                 /\ out.resp.expiry = Partition(out.resp.region)[Uid(r)]
                 /\ out.resp.time_remaining > 0
                 /\ out.resp.expiry - out.resp.time_remaining \in out.obs.t0 .. now
            ELSE \A g \in Checked(r) :
                    Uid(r) \in DOMAIN Partition(g) => Partition(g)[Uid(r)] <= now

\* C10 witness: a check at the very instant of the expiry of a stored entry reports
\* not whitelisted
C10_Witness ==
    /\ Alone("check") /\ out.resp.success /\ ~out.resp.whitelisted
    /\ out.obs.t0 = now
    /\ Uid(out.req) \in DOMAIN Partition("ME")
    /\ Partition("ME")[Uid(out.req)] = now

\* the kinds of the read requests
Reads == {"check", "list", "list_region", "balance", "history"}

\* C11: no step of the handler of a check, list, list-by-region, balance or history
\* request changes a partition or the account map (so an expired entry stays stored
\* through any number of checks), and the balance and the history answered for a user
\* without an account are 0 and empty.
C11_ReadsChangeNothing ==
    [][\A p \in Procs :
         (req[p].kind \in Reads /\ (pc'[p] # pc[p] \/ loc'[p] # loc[p]))
         => (/\ whitelists' = whitelists
             /\ users_file' = users_file
             /\ (pc'[p] = "idle" /\ req[p].kind \in {"balance", "history"}
                   /\ get_user_id(req[p]) \notin DOMAIN Accounts)
                 => (out'.resp.success /\ out'.resp.coins = 0 /\ out'.resp.history = <<>>))]_vars

\* C11 witness: the balance of a user without an account was answered with 0 and the
\* user still has no account
C11_Witness ==
    /\ out.req.kind = "balance"
    /\ out.resp.success /\ out.resp.coins = 0
    /\ out.resp.user_id = "u1"
    /\ "u1" \notin DOMAIN Accounts
    /\ DOMAIN Accounts # {}

\* the order of the registry that the check without a region promises
RegistryOrder == <<"ME", "IND", "ID", "VN", "TH", "BD", "PK", "TW", "EU", "CIS", "NA", "SAC", "BR">>

\* the partition of region g holds an entry of uid that expires after t
ActiveAt(g, uid, t) == uid \in DOMAIN Partition(g) /\ Partition(g)[uid] > t

\* C12: a check without a region that ran alone answers whitelisted with the first
\* region, in the order ME, IND, ID, VN, TH, BD, PK, TW, EU, CIS, NA, SAC, BR, whose
\* partition holds an entry of the uid that is active at the clock t the check read
\* (entries expired at t in earlier regions are skipped), and it answers not
\* whitelisted only when no region holds an active entry of the uid.
C12_FirstActiveRegion ==
    (Alone("check") /\ out.req.region = NoRegion /\ out.resp.success) =>
        LET uid == Uid(out.req)
            t == out.resp.expiry - out.resp.time_remaining
        IN  IF out.resp.whitelisted
            THEN /\ t \in out.obs.t0 .. now
                 /\ \E i \in DOMAIN RegistryOrder :
                       /\ RegistryOrder[i] = out.resp.region
                       /\ ActiveAt(RegistryOrder[i], uid, t)
                       /\ out.resp.expiry = Partition(RegistryOrder[i])[uid]
                       /\ \A j \in 1 .. (i - 1) : ~ActiveAt(RegistryOrder[j], uid, t)
            ELSE \A g \in RegionSet : ~ActiveAt(g, uid, now)

\* C12 witness: the uid is stored in ME, where it has expired, and in IND, where it
\* is active, and the check without a region answered IND
C12_Witness ==
    /\ Alone("check") /\ out.req.region = NoRegion
    /\ out.resp.whitelisted /\ out.resp.region = "IND"
    /\ Uid(out.req) \in DOMAIN Partition("ME")
    /\ Partition("ME")[Uid(out.req)] <= out.obs.t0

\* the regions a list request shows
Listed(r) == IF r.kind = "list" THEN RegionSet ELSE {Region(r)}

\* the entries stored in the regions gs, as pairs of region and uid
Stored(gs) == UNION {{<<g, uid>> : uid \in DOMAIN Partition(g)} : g \in gs}

\* the clock values between t0 and now
ClockValues(t0) == {t \in t0 .. now : t % SecondsPerHour = 0}

\* C13: a list, of one region or of all, that ran alone returns exactly the stored
\* entries of its regions, each once, with their stored expiry, in ascending order of
\* expiry, each with status active exactly when expiry > t and otherwise expired
\* (expired entries are included), and remaining = max(0, expiry - t), for the clock t
\* that the list read.
C13_ListSorted ==
    ((Alone("list") \/ Alone("list_region")) /\ out.resp.success) =>
        LET es == out.resp.entries
        IN  /\ {<<es[i].region, es[i].uid>> : i \in DOMAIN es} = Stored(Listed(out.req))
            /\ Len(es) = Cardinality(Stored(Listed(out.req)))
            /\ \A i \in DOMAIN es : es[i].expiry = Partition(es[i].region)[es[i].uid]
            /\ \A i, j \in DOMAIN es : i < j => es[i].expiry <= es[j].expiry
            /\ \E t \in ClockValues(out.obs.t0) :
                  \A i \in DOMAIN es :
                     /\ es[i].status = "active" <=> es[i].expiry > t
                     /\ es[i].status = "expired" <=> es[i].expiry <= t
                     /\ es[i].time_remaining = (IF es[i].expiry > t THEN es[i].expiry - t ELSE 0)

\* C13 witness: a list of all regions showed an expired entry before an active one
C13_Witness ==
    /\ Alone("list") /\ out.resp.success
    /\ Len(out.resp.entries) = 2
    /\ out.resp.entries[1].status = "expired" /\ out.resp.entries[1].time_remaining = 0
    /\ out.resp.entries[2].status = "active"
    /\ out.resp.entries[1].expiry < out.resp.entries[2].expiry

\* C14: the persisted history of every user before a step is a prefix of that user's
\* persisted history after the step, in every interleaving of the requests.
C14_HistoryAppendOnly ==
    [][\A u \in Users :
         IsPrefix(GetUser(Accounts, u).history, GetUser(Accounts', u).history)]_vars

\* the 13 codes of the registry
Registry == {RegistryOrder[i] : i \in DOMAIN RegistryOrder}

\* the requests that validation has to reject
Rejected(r) ==
    \/ /\ r.kind = "add"
       /\ \/ Region(r) \notin Registry
          \/ Uid(r) = ""
          \/ ~IsDigit(Uid(r))
          \/ Hours(r) < 1
          \/ Hours(r) > 720
    \/ r.kind \in {"remove", "check"} /\ r.region # NoRegion /\ Region(r) \notin Registry
    \/ r.kind = "credit" /\ (Amount(r) <= 0 \/ Amount(r) > 1000)

\* C15: the handler of an add with a region outside the registry, an empty or
\* non-numeric uid or hours outside 1..720, of a remove or check with a region outside
\* the registry, or of a credit with amount <= 0 or > 1000 answers in its first step
\* with status 400 and a validation error (not the insufficient-coins error, whatever
\* the balance), and the step changes no partition and no account and leaves exactly
\* the partitions of the 13 registry codes.
C15_RejectedChangesNothing ==
    [][\A p \in Procs :
         (pc[p] = req[p].kind /\ pc'[p] # pc[p] /\ Rejected(req[p]))
         => (/\ pc'[p] = "idle"
             /\ out'.proc = p
             /\ ~out'.resp.success
             /\ out'.resp.status = 400
             /\ out'.resp.error \in {"Invalid UID format", "Invalid region", "UID is required",
                                     "Hours must be between 1 and 720", "Invalid amount"}
             /\ whitelists' = whitelists
             /\ users_file' = users_file
             /\ DOMAIN whitelists' = {get_whitelist_path(g) : g \in Registry})]_vars

\* C15 witness: an add with hours outside 1..720 by a user who cannot pay either was
\* answered with the validation error
C15_Witness ==
    /\ out.req.kind = "add"
    /\ Hours(out.req) > 720
    /\ out.resp.status = 400
    /\ out.resp.error = "Hours must be between 1 and 720"
    /\ GetUser(Accounts, get_user_id(out.req)).coins < COIN_COST_PER_UID

\* C16: a credit or a cleanup that ran alone and during which a save failed reports a
\* failure, and the partitions and the account map are as they were when it came in.
C16_FailedSaveReported ==
    ((Alone("credit") \/ Alone("cleanup")) /\ nfault > out.obs.faults0) =>
        /\ ~out.resp.success
        /\ out.resp.added = 0
        /\ out.resp.removed = 0
        /\ whitelists = out.obs.whitelists0
        /\ users_file = out.obs.users0

\* When save_whitelist returns False in a paid add, the add answers in that step with
\* status 500 and a storage error, the step changes no partition and no account, and
\* when the add ran alone the partitions and the account map are as they were when it
\* came in (nothing added, no expiry changed, nothing charged).
FailedAddChangesNothing ==
    [][\A p \in Procs :
         (pc[p] = "add_save" /\ pc'[p] # pc[p] /\ nfault' = nfault + 1)
         => (/\ out'.proc = p
             /\ ~out'.resp.success
             /\ out'.resp.status = 500
             /\ out'.resp.error = "Failed to save whitelist"
             /\ whitelists' = whitelists
             /\ users_file' = users_file
             /\ out'.obs.alone =>
                   (whitelists' = out'.obs.whitelists0 /\ users_file' = out'.obs.users0))]_vars

\* an add that would have brought the expiry of a stored entry forward failed to
\* save, and the entry has its old expiry
FailedAddWitness ==
    /\ Alone("add") /\ out.resp.status = 500 /\ nfault > out.obs.faults0
    /\ Uid(out.req) \in DOMAIN Partition(Region(out.req))
    /\ Partition(Region(out.req))[Uid(out.req)] > Expiry(now, Hours(out.req))
    /\ users_file = out.obs.users0

\* C17: a save of the partition that failed (save_json_file returned False, on which
\* the add reports the storage error) did not add to the file: the file does not hold
\* the mapping given to that save, unless it held it before the call or a save that
\* succeeded was given the same mapping.
C17_FailedSaveNotStored ==
    \A t \in Savers :
        (/\ fs.ret[t].value = "False"
         /\ fs.ret[t].data \notin fs.saved
         /\ fs.ret[t].before # Dump(fs.ret[t].data))
        => ~(fs.names.path # NoInode /\ fs.inode[fs.names.path] = Dump(fs.ret[t].data))

\* C18: a remove with a uid and a registry region that ran alone answers 404 and
\* changes no partition and no account when the uid is not a key of the region's
\* partition, also when another region stores it; when the uid is a key, active or
\* expired, and the save did not fail, it answers success, the partition has lost
\* exactly that key, every other entry and every other partition is as it was, and the
\* account map is as it was.
C18_Remove ==
    (Alone("remove") /\ Uid(out.req) # "" /\ Region(out.req) \in Registry) =>
        LET uid == Uid(out.req)
            g == Region(out.req)
        IN  /\ users_file = out.obs.users0
            /\ \A h \in Registry \ {g} : Partition(h) = Partition0(h)
            /\ IF uid \notin DOMAIN Partition0(g)
               THEN /\ ~out.resp.success /\ out.resp.status = 404
                    /\ Partition(g) = Partition0(g)
               ELSE nfault = out.obs.faults0 =>
                    /\ out.resp.success
                    /\ DOMAIN Partition(g) = (DOMAIN Partition0(g)) \ {uid}
                    /\ \A v \in DOMAIN Partition(g) : Partition(g)[v] = Partition0(g)[v]

\* C18 witness: an expired entry was removed from a partition that keeps its other
\* entry, by a caller whose account is as it was
C18_Witness ==
    /\ Alone("remove") /\ out.resp.success
    /\ Partition0(Region(out.req))[Uid(out.req)] <= out.obs.t0
    /\ Uid(out.req) \notin DOMAIN Partition(Region(out.req))
    /\ DOMAIN Partition(Region(out.req)) # {}
    /\ users_file = out.obs.users0

\* the regions whose partition a step of thread p may change: the region of an add or
\* a remove, the region that a cleanup has come to
MayWrite(p) ==
    IF req[p].kind \in {"add", "remove"} THEN {Region(req[p])}
    ELSE IF req[p].kind = "cleanup" THEN {RegistryOrder[loc[p].i + 1]}
    ELSE {}

\* the add or remove answered by `out` took full effect on its region: the partition is
\* the one that was there when the request came in with the entry set or deleted
FullEffect ==
    LET r == out.req
        own == load_json_file(out.obs.own0)
        is == Partition(Region(r))
    IN  (r.kind \in {"add", "remove"} /\ out.resp.success /\ out.obs.solo) =>
            IF r.kind = "add"
            THEN /\ DOMAIN is = (DOMAIN own) \cup {Uid(r)}
                 /\ is[Uid(r)] = out.resp.expiry
                 /\ \A v \in (DOMAIN own) \ {Uid(r)} : is[v] = own[v]
            ELSE /\ DOMAIN is = (DOMAIN own) \ {Uid(r)}
                 /\ \A v \in DOMAIN is : is[v] = own[v]

\* C19: a step of an add, a remove or a sweep of region R changes the partition of no
\* other region, and an add or remove that reported success while no request that can
\* write its region ran concurrently (requests on other regions may have) leaves its
\* partition as if it had run alone.
C19_PartitionsIndependent ==
    [][/\ \A p \in Procs :
            (pc'[p] # pc[p] \/ loc'[p] # loc[p]) =>
                \A g \in Registry :
                    whitelists'[get_whitelist_path(g)] # whitelists[get_whitelist_path(g)]
                        => g \in MayWrite(p)
       /\ FullEffect']_vars

\* C19 witness: an add reported success after running concurrently with an add to
\* another region, and both entries are stored
C19_Witness ==
    /\ out.req.kind = "add" /\ out.resp.success /\ out.obs.solo /\ ~out.obs.alone
    /\ \E q \in Procs :
          /\ pc[q] = "add_charge"
          /\ Region(req[q]) # Region(out.req)
          /\ Uid(req[q]) \in DOMAIN Partition(Region(req[q]))
          /\ Partition(Region(req[q]))[Uid(req[q])] = loc[q].expiry
    /\ Uid(out.req) \in DOMAIN Partition(Region(out.req))
    /\ Partition(Region(out.req))[Uid(out.req)] = out.resp.expiry

\* the sum of the amounts of the coins_add entries of a history minus the sum of the
\* costs of its whitelist_add entries
RECURSIVE Ledger(_)
Ledger(h) ==
    IF h = <<>> THEN 0
    ELSE LET e == h[Len(h)]
         IN  Ledger(SubSeq(h, 1, Len(h) - 1))
                + (IF e.action = "coins_add" THEN e.amount ELSE 0)
                - (IF e.action = "whitelist_add" THEN e.cost ELSE 0)

====
